---- MODULE Spec2Model ----
(***************************************************************************)
(* A model of the two scripts of import-dynamodb-local:                    *)
(*   - import-dynamodb-local (src/unnamed/part_000): the table replicator, *)
(*     describe -> create-if-absent -> scan -> chunked batch-write;        *)
(*   - get-vars (src/get-vars.js): the recursive CloudFormation stack walk *)
(*     that merges the environment variables of every Lambda function.     *)
(* Three specifications share the module: SpecChunk drives the chunkArray  *)
(* generator alone, Spec drives exportAndImportDynamoDBTable against two   *)
(* table services, SpecVars drives listStackResources against a stack      *)
(* directory.  Each leaves the other scripts' variables untouched.         *)
(***************************************************************************)
EXTENDS Integers, Sequences, FiniteSets, TLC

VARIABLES
    \* ---- chunkArray driven alone (SpecChunk)
    cArr,        \* the array handed to chunkArray
    cStride,     \* the stride handed to chunkArray
    cI,          \* the generator's loop variable i
    cChunks,     \* the chunks yielded so far, in yield order
    cPc,         \* "idle" | "iter" | "done"
    \* ---- the replicator (Spec)
    limit,       \* argv.limit
    remote,      \* the remote service: [exists, schema, items]
    local,       \* the local service: [exists, schema, written]
    pc,          \* position of exportAndImportDynamoDBTable
    remoteTableDescription,
    localTableDescription,
    tableData,   \* the scan's answer: [scanned, hasItems, Items]
    stride,      \* importRemoteDataToLocalDynamoDB's stride
    genI,        \* the loop variable i of the generator itemChunks
    limitCounter,
    calls,       \* every command sent, in send order, with its answer
    outcome,     \* what the run logged: "none" | "empty" | "success" | "error"
    err,         \* the error console.error received
    \* ---- the env collector (SpecVars)
    world,       \* which stack directory the run sees
    functionCount,
    merged,
    stacks,
    frames,      \* the active listStackResources calls, outermost first
    lambdaEnv,   \* the configurations the Lambda service has answered with
    trace,       \* resources visited and console.log lines, in order
    vpc,         \* "start" | "run" | "done" | "error"
    printed      \* what the .then handler printed

chunkVars == <<cArr, cStride, cI, cChunks, cPc>>

replVars == <<limit, remote, local, pc, remoteTableDescription,
              localTableDescription, tableData, stride, genI, limitCounter,
              calls, outcome, err>>

collVars == <<world, functionCount, merged, stacks, frames, lambdaEnv,
              trace, vpc, printed>>

vars == <<chunkVars, replVars, collVars>>

-----------------------------------------------------------------------------
\* Bounds of the model.

MaxLen == 5

MaxStride == 4

MaxItems == 77

MaxLimit == 51

MaxValue == 2

-----------------------------------------------------------------------------
\* Plain helpers.

Min(a, b) == IF a < b THEN a ELSE b

Max(a, b) == IF a > b THEN a ELSE b

\* Array.prototype.slice(start, end): negative indices count from the end,
\* both ends are clamped to the array, an empty range gives an empty array.
JsSlice(a, start, end) ==
    LET len   == Len(a)
        k     == IF start < 0 THEN Max(len + start, 0) ELSE Min(start, len)
        final == IF end < 0 THEN Max(len + end, 0) ELSE Min(end, len)
        count == Max(final - k, 0)
    IN  [j \in 1..count |-> a[k + j]]

RECURSIVE Flatten(_)
Flatten(ss) == IF ss = <<>> THEN <<>> ELSE Head(ss) \o Flatten(Tail(ss))

RECURSIVE SeqsUpTo(_, _)
SeqsUpTo(S, n) ==
    IF n = 0 THEN {<<>>}
    ELSE LET shorter == SeqsUpTo(S, n - 1)
         IN  shorter \cup {Append(s, x) : s \in {t \in shorter : Len(t) = n - 1}, x \in S}

-----------------------------------------------------------------------------
\* chunkArray (part_000:68-72), a generator: one step per loop iteration.

\* for (...; i < arr.length; ...)
ChunkHasNext(arr, i) == i < Len(arr)

ChunkYieldOffByOne(arr, i, s) == JsSlice(arr, i, Min(i + s, Len(arr)) - 1)

\* yield arr.slice(i, Math.min(i + stride, arr.length))
ChunkYield(arr, i, s) == JsSlice(arr, i, Min(i + s, Len(arr)))

\* i += stride
ChunkAdvance(i, s) == i + s

ChunkItems == {"a", "b"}

InitChunkIdle ==
    /\ cArr = <<>> /\ cStride = 1 /\ cI = 0 /\ cChunks = <<>> /\ cPc = "idle"

InitChunk ==
    /\ cArr \in SeqsUpTo(ChunkItems, MaxLen)
    /\ cStride \in 1..MaxStride
    /\ cI = 0
    /\ cChunks = <<>>
    /\ cPc = "iter"

ChunkStep ==
    /\ cPc = "iter"
    /\ ChunkHasNext(cArr, cI)
    /\ cChunks' = Append(cChunks, ChunkYield(cArr, cI, cStride))
    /\ cI' = ChunkAdvance(cI, cStride)
    /\ UNCHANGED <<cArr, cStride, cPc>>
    /\ UNCHANGED <<replVars, collVars>>

ChunkReturn ==
    /\ cPc = "iter"
    /\ ~ChunkHasNext(cArr, cI)
    /\ cPc' = "done"
    /\ UNCHANGED <<cArr, cStride, cI, cChunks>>
    /\ UNCHANGED <<replVars, collVars>>

-----------------------------------------------------------------------------
\* The replicator (part_000).  Both services hold at most the one table
\* argv.tableName names; a command is logged in calls when it is sent and its
\* answer is written into the same entry when the await resumes.

BatchMax == 25

Schemas == {"schemaA", "schemaB"}

NoError == "none"

NotFound == "ResourceNotFoundException"

Throttled == "ThrottlingException"

InUse == "ResourceInUseException"

JsTypeError == "TypeError"

\* new Error(`Table "..." does not exist in the remote DynamoDB, ...`)
RemoteMissingError == "does not exist in the remote DynamoDB"

\* null, and a DescribeTable output { Table: ... }
NullDescription == [isNull |-> TRUE, Table |-> "none"]

Description(schema) == [isNull |-> FALSE, Table |-> schema]

\* The items of a table holding n items, in scan order.
ItemSeq(n) == [k \in 1..n |-> k]

\* ---- what the services can answer

DescribeAnswers(t) ==
    {[error |-> Throttled, value |-> NullDescription]} \cup
    (IF t.exists
        THEN {[error |-> NoError, value |-> Description(t.schema)]}
        ELSE {[error |-> NotFound, value |-> NullDescription]})

CreateAnswers(t) == {Throttled} \cup (IF t.exists THEN {InUse} ELSE {NoError})

\* A scan of N items answers with Items; of an empty table, with an empty
\* Items or with none.
ScanAnswers(t) ==
    {[error |-> e, hasItems |-> FALSE, Items |-> <<>>] : e \in {Throttled, NotFound}}
    \cup {[error |-> NoError, hasItems |-> TRUE, Items |-> t.items]}
    \cup (IF t.items = <<>>
            THEN {[error |-> NoError, hasItems |-> FALSE, Items |-> <<>>]}
            ELSE {})

\* The service refuses a request without put requests; whether the local
\* emulator does so too is left open.
BatchAnswers(batch) ==
    {NoError, Throttled, NotFound} \cup
    (IF batch = <<>> THEN {"ValidationException"} ELSE {})

\* ---- the code's decisions

SwallowEveryError(resp) ==
    IF resp.error = NoError
        THEN [threw |-> FALSE, error |-> NoError, value |-> resp.value]
        ELSE [threw |-> FALSE, error |-> NoError, value |-> NullDescription]

\* getTableDescriptionInfo: the output, null on ResourceNotFoundException,
\* any other error rethrown.
getTableDescriptionInfo(resp) ==
    IF resp.error = NoError
        THEN [threw |-> FALSE, error |-> NoError, value |-> resp.value]
    ELSE IF resp.error = NotFound
        THEN [threw |-> FALSE, error |-> NoError, value |-> NullDescription]
    ELSE [threw |-> TRUE, error |-> resp.error, value |-> NullDescription]

RemoteNeverMissing(desc) == FALSE

\* if (!remoteTableDescription)
RemoteMissing(desc) == desc.isNull

AlwaysCreate(desc) == TRUE

\* if (!localTableDescription)
NeedsCreate(desc) == desc.isNull

\* new CreateTableCommand(remoteTableDescription.Table)
CreateTableInput(desc) == desc.Table

EmptyItemsOnly(td) == td.hasItems /\ Len(td.Items) = 0

\* if (!tableData.Items || !tableData.Items.length)
IsEmptyScan(td) == ~td.hasItems \/ Len(td.Items) = 0

\* const stride = limit > 25 ? 25 : limit
Stride(l) == IF l > BatchMax THEN BatchMax ELSE l

LimitExceeded(counter, l) == counter > l

\* if (limitCounter >= limit) break
LimitReached(counter, l) == counter >= l

\* ---- the call log

Call(op, endpoint, schema, batch) ==
    [op |-> op, endpoint |-> endpoint, schema |-> schema, batch |-> batch,
     status |-> "pending"]

Answered(status) == [calls EXCEPT ![Len(calls)].status = status]

NoTableData == [scanned |-> FALSE, hasItems |-> FALSE, Items |-> <<>>]

InitReplIdle ==
    /\ limit = 0
    /\ remote = [exists |-> FALSE, schema |-> "none", items |-> <<>>]
    /\ local = [exists |-> FALSE, preexisting |-> FALSE, schema |-> "none",
                written |-> <<>>]
    /\ pc = "idle"
    /\ remoteTableDescription = NullDescription
    /\ localTableDescription = NullDescription
    /\ tableData = NoTableData
    /\ stride = 0 /\ genI = 0 /\ limitCounter = 0
    /\ calls = <<>>
    /\ outcome = "none"
    /\ err = NoError

InitRepl ==
    /\ limit \in 0..MaxLimit
    /\ remote \in
         {[exists |-> FALSE, schema |-> "none", items |-> <<>>]} \cup
         {[exists |-> TRUE, schema |-> s, items |-> ItemSeq(n)] :
             s \in Schemas, n \in 0..MaxItems}
    /\ local \in
         {[exists |-> FALSE, preexisting |-> FALSE, schema |-> "none",
           written |-> <<>>]} \cup
         {[exists |-> TRUE, preexisting |-> TRUE, schema |-> s,
           written |-> <<>>] : s \in Schemas}
    /\ pc = "start"
    /\ remoteTableDescription = NullDescription
    /\ localTableDescription = NullDescription
    /\ tableData = NoTableData
    /\ stride = 0 /\ genI = 0 /\ limitCounter = 0
    /\ calls = <<>>
    /\ outcome = "none"
    /\ err = NoError

\* catch (err) { console.error(err) }, with the last command answered.
Throw(cs, e) ==
    /\ calls' = cs
    /\ pc' = "done"
    /\ outcome' = "error"
    /\ err' = e

\* The run ends without an error, logging `how`.
Finish(cs, how) ==
    /\ calls' = cs
    /\ pc' = "done"
    /\ outcome' = how
    /\ err' = NoError

\* exportAndImportDynamoDBTable up to its first await.
Start ==
    /\ pc = "start"
    /\ calls' = Append(calls, Call("DescribeTable", "remote", "none", <<>>))
    /\ pc' = "awaitDescribeRemote"
    /\ UNCHANGED <<limit, remote, local, remoteTableDescription,
                   localTableDescription, tableData, stride, genI,
                   limitCounter, outcome, err>>
    /\ UNCHANGED <<chunkVars, collVars>>

\* part_000:136-142: the remote description arrives.
DescribeRemoteReturns ==
    /\ pc = "awaitDescribeRemote"
    /\ \E resp \in DescribeAnswers(remote) :
         LET r == getTableDescriptionInfo(resp) IN
         IF r.threw
            THEN /\ Throw(Answered(resp.error), r.error)
                 /\ UNCHANGED remoteTableDescription
         ELSE IF RemoteMissing(r.value)
            THEN /\ Throw(Answered(resp.error), RemoteMissingError)
                 /\ remoteTableDescription' = r.value
         ELSE /\ remoteTableDescription' = r.value
              /\ calls' = Append(Answered(resp.error),
                                 Call("DescribeTable", "local", "none", <<>>))
              /\ pc' = "awaitDescribeLocal"
              /\ UNCHANGED <<outcome, err>>
    /\ UNCHANGED <<limit, remote, local, localTableDescription, tableData,
                   stride, genI, limitCounter>>
    /\ UNCHANGED <<chunkVars, collVars>>

ScanCall == Call("Scan", "remote", "none", <<>>)

\* part_000:142-152: the local description arrives.
DescribeLocalReturns ==
    /\ pc = "awaitDescribeLocal"
    /\ \E resp \in DescribeAnswers(local) :
         LET r == getTableDescriptionInfo(resp) IN
         IF r.threw
            THEN /\ Throw(Answered(resp.error), r.error)
                 /\ UNCHANGED localTableDescription
         ELSE /\ localTableDescription' = r.value
              /\ IF NeedsCreate(r.value)
                    THEN IF remoteTableDescription.isNull
                            \* null.Table
                            THEN Throw(Answered(resp.error), JsTypeError)
                            ELSE /\ calls' = Append(Answered(resp.error),
                                        Call("CreateTable", "local",
                                             CreateTableInput(remoteTableDescription),
                                             <<>>))
                                 /\ pc' = "awaitCreate"
                                 /\ UNCHANGED <<outcome, err>>
                    ELSE /\ calls' = Append(Answered(resp.error), ScanCall)
                         /\ pc' = "awaitScan"
                         /\ UNCHANGED <<outcome, err>>
    /\ UNCHANGED <<limit, remote, local, remoteTableDescription, tableData,
                   stride, genI, limitCounter>>
    /\ UNCHANGED <<chunkVars, collVars>>

\* part_000:147-152: the local service answers CreateTable.
CreateReturns ==
    /\ pc = "awaitCreate"
    /\ \E e \in CreateAnswers(local) :
         IF e = NoError
            THEN /\ local' = [local EXCEPT !.exists = TRUE,
                                !.schema = calls[Len(calls)].schema]
                 /\ calls' = Append(Answered(e), ScanCall)
                 /\ pc' = "awaitScan"
                 /\ UNCHANGED <<outcome, err>>
            ELSE /\ Throw(Answered(e), e)
                 /\ UNCHANGED local
    /\ UNCHANGED <<limit, remote, remoteTableDescription,
                   localTableDescription, tableData, stride, genI,
                   limitCounter>>
    /\ UNCHANGED <<chunkVars, collVars>>

BatchCall(batch) == Call("BatchWriteItem", "local", "none", batch)

\* The for-of of importRemoteDataToLocalDynamoDB asks the generator, whose
\* loop variable is i, for its next chunk: a chunk is sent, or the loop and
\* the import end and the success line is logged.
NextChunk(its, s, i, cs) ==
    /\ genI' = i
    /\ IF ChunkHasNext(its, i)
          THEN /\ calls' = Append(cs, BatchCall(ChunkYield(its, i, s)))
               /\ pc' = "awaitBatch"
               /\ UNCHANGED <<outcome, err>>
          ELSE Finish(cs, "success")

\* part_000:152-160 and 104-117: the scan's answer arrives.
ScanReturns ==
    /\ pc = "awaitScan"
    /\ \E resp \in ScanAnswers(remote) :
         IF resp.error # NoError
            THEN /\ Throw(Answered(resp.error), resp.error)
                 /\ UNCHANGED <<tableData, stride, genI, limitCounter>>
         ELSE /\ tableData' = [scanned |-> TRUE, hasItems |-> resp.hasItems,
                               Items |-> resp.Items]
              /\ IF IsEmptyScan(resp)
                    THEN /\ Finish(Answered(NoError), "empty")
                         /\ UNCHANGED <<stride, genI, limitCounter>>
                 ELSE IF ~resp.hasItems
                    \* undefined.length
                    THEN /\ Throw(Answered(NoError), JsTypeError)
                         /\ UNCHANGED <<stride, genI, limitCounter>>
                 ELSE /\ stride' = Stride(limit)
                      /\ limitCounter' = 0
                      /\ NextChunk(resp.Items, Stride(limit), 0, Answered(NoError))
    /\ UNCHANGED <<limit, remote, local, remoteTableDescription,
                   localTableDescription>>
    /\ UNCHANGED <<chunkVars, collVars>>

\* part_000:117-124: the local service answers a BatchWriteItem.
BatchReturns ==
    /\ pc = "awaitBatch"
    /\ \E e \in BatchAnswers(calls[Len(calls)].batch) :
         LET batch == calls[Len(calls)].batch
             count == limitCounter + Len(batch)
         IN  IF e # NoError
                THEN /\ Throw(Answered(e), e)
                     /\ UNCHANGED <<local, genI, limitCounter>>
                ELSE /\ local' = [local EXCEPT !.written = @ \o batch]
                     /\ limitCounter' = count
                     /\ IF LimitReached(count, limit)
                           THEN /\ Finish(Answered(e), "success")
                                /\ UNCHANGED genI
                           ELSE NextChunk(tableData.Items, stride,
                                          ChunkAdvance(genI, stride), Answered(e))
    /\ UNCHANGED <<limit, remote, remoteTableDescription,
                   localTableDescription, tableData, stride>>
    /\ UNCHANGED <<chunkVars, collVars>>

-----------------------------------------------------------------------------
\* The env collector (get-vars.js).  A stack directory is a tree of stacks;
\* Tree gives each stack's resources in listing order, and the services
\* answer in the SDK's shapes derived from it.

StackType == "AWS::CloudFormation::Stack"

FunctionType == "AWS::Lambda::Function"

OtherType == "AWS::DynamoDB::Table"

Names == {"X", "Y"}

Functions == {"fn1", "fn2", "fn3"}

Worlds == {"chain", "siblings", "flat"}

RootStack == "root"

Entry(kind, name) == [kind |-> kind, name |-> name]

Tree(w, s) ==
    CASE w = "chain" /\ s = "root" ->
            <<Entry("fn", "fn1"), Entry("stack", "child")>>
      [] w = "chain" /\ s = "child" ->
            <<Entry("stack", "grand"), Entry("fn", "fn2")>>
      [] w = "chain" /\ s = "grand" ->
            <<Entry("fn", "fn3"), Entry("other", "table1")>>
      [] w = "siblings" /\ s = "root" ->
            <<Entry("stack", "a"), Entry("fn", "fn1"), Entry("stack", "b")>>
      [] w = "siblings" /\ s = "a" ->
            <<Entry("fn", "fn2")>>
      [] w = "siblings" /\ s = "b" ->
            <<Entry("other", "table1"), Entry("fn", "fn3")>>
      [] w = "flat" /\ s = "root" ->
            <<Entry("fn", "fn1"), Entry("fn", "fn2"), Entry("other", "table1")>>
      [] OTHER -> <<>>

StacksOf(w) ==
    CASE w = "chain" -> {"root", "child", "grand"}
      [] w = "siblings" -> {"root", "a", "b"}
      [] OTHER -> {"root"}

\* A physical resource id, split at its slashes: a nested stack's is its ARN,
\* arn:aws:cloudformation:<region>:<account>:stack/<name>/<guid>.
PhysicalId(e) ==
    IF e.kind = "stack"
        THEN <<"arn:aws:cloudformation:us-east-1:000000000000:stack", e.name, "guid">>
        ELSE <<e.name>>

ResourceSummary(e) ==
    [ResourceType |-> CASE e.kind = "stack" -> StackType
                        [] e.kind = "fn" -> FunctionType
                        [] OTHER -> OtherType,
     PhysicalResourceId |-> PhysicalId(e),
     LogicalResourceId |-> e.name]

\* cloudformation.listStackResources
ListAnswers(w, s) ==
    IF s \in StacksOf(w)
        THEN {[error |-> NoError,
               StackResourceSummaries |->
                   [k \in 1..Len(Tree(w, s)) |-> ResourceSummary(Tree(w, s)[k])]],
              [error |-> Throttled, StackResourceSummaries |-> <<>>]}
        ELSE {[error |-> "ValidationError", StackResourceSummaries |-> <<>>]}

Maps == UNION {[S -> 1..MaxValue] : S \in SUBSET Names}

EmptyMap == [n \in {} |-> 0]

\* lambda.getFunctionConfiguration: no Environment, an Environment without
\* Variables, or Variables.
ConfigAnswers ==
    {[error |-> Throttled, hasEnvironment |-> FALSE, hasVariables |-> FALSE,
      Variables |-> EmptyMap],
     [error |-> NoError, hasEnvironment |-> FALSE, hasVariables |-> FALSE,
      Variables |-> EmptyMap],
     [error |-> NoError, hasEnvironment |-> TRUE, hasVariables |-> FALSE,
      Variables |-> EmptyMap]} \cup
    {[error |-> NoError, hasEnvironment |-> TRUE, hasVariables |-> TRUE,
      Variables |-> m] : m \in Maps}

UnknownConfig ==
    [known |-> FALSE, hasEnvironment |-> FALSE, hasVariables |-> FALSE,
     Variables |-> EmptyMap]

\* ---- the code's decisions

NestedOff == FALSE

\* nested = true, the default the recursive call takes
NestedDefault == TRUE

\* resource.PhysicalResourceId.split('/')[1]
NestedStackName(id) == id[2]

\* if (lambdaConfig.Environment && lambdaConfig.Environment.Variables)
HasVariables(c) == c.hasEnvironment /\ c.hasVariables

MergeFirstWins(a, b) ==
    [k \in DOMAIN a \cup DOMAIN b |-> IF k \in DOMAIN a THEN a[k] ELSE b[k]]

\* { ...merged, ...lambdaConfig.Environment.Variables }
Merge(a, b) ==
    [k \in DOMAIN a \cup DOMAIN b |-> IF k \in DOMAIN b THEN b[k] ELSE a[k]]

\* page[resource.LogicalResourceId] = ..., stacks[stackName] = page
Put(m, k, v) == [x \in DOMAIN m \cup {k} |-> IF x = k THEN v ELSE m[x]]

Frame(s, nested) ==
    [stackName |-> s, nested |-> nested, resources |-> <<>>, idx |-> 1,
     page |-> EmptyMap, pc |-> "awaitList"]

Top == frames[Len(frames)]

SetTop(f) == [frames EXCEPT ![Len(frames)] = f]

Visit(s, r, count) ==
    [kind |-> "visit", stack |-> s, id |-> r.LogicalResourceId,
     type |-> r.ResourceType, count |-> count]

Completed(s, count) ==
    [kind |-> "completed", stack |-> s, id |-> "-", type |-> "-", count |-> count]

InitCollIdle ==
    /\ world = "flat"
    /\ functionCount = 0
    /\ merged = EmptyMap
    /\ stacks = EmptyMap
    /\ frames = <<>>
    /\ lambdaEnv = [f \in Functions |-> UnknownConfig]
    /\ trace = <<>>
    /\ vpc = "idle"
    /\ printed = EmptyMap

InitColl ==
    /\ world \in Worlds
    /\ functionCount = 0
    /\ merged = EmptyMap
    /\ stacks = EmptyMap
    /\ frames = <<>>
    /\ lambdaEnv = [f \in Functions |-> UnknownConfig]
    /\ trace = <<>>
    /\ vpc = "start"
    /\ printed = EmptyMap

\* get-vars.js:84 and 54-57: listStackResources(stackName) up to its await.
VarsStart ==
    /\ vpc = "start"
    /\ frames' = <<Frame(RootStack, TRUE)>>
    /\ vpc' = "run"
    /\ UNCHANGED <<world, functionCount, merged, stacks, lambdaEnv, trace, printed>>
    /\ UNCHANGED <<chunkVars, replVars>>

\* get-vars.js:57: the listing arrives, or the call rejects and the
\* rejection runs up to .catch(console.error).
ListReturns ==
    /\ vpc = "run"
    /\ Top.pc = "awaitList"
    /\ \E resp \in ListAnswers(world, Top.stackName) :
         IF resp.error # NoError
            THEN /\ vpc' = "error"
                 /\ UNCHANGED frames
            ELSE /\ frames' = SetTop([Top EXCEPT
                                 !.resources = resp.StackResourceSummaries,
                                 !.pc = "loop"])
                 /\ UNCHANGED vpc
    /\ UNCHANGED <<world, functionCount, merged, stacks, lambdaEnv, trace, printed>>
    /\ UNCHANGED <<chunkVars, replVars>>

\* get-vars.js:59-67: one iteration of the for loop, up to its await.
VisitResource ==
    /\ vpc = "run"
    /\ Top.pc = "loop"
    /\ Top.idx <= Len(Top.resources)
    /\ LET r == Top.resources[Top.idx] IN
         /\ trace' = Append(trace, Visit(Top.stackName, r, functionCount))
         /\ IF r.ResourceType = StackType /\ Top.nested
               THEN /\ frames' = Append(SetTop([Top EXCEPT !.pc = "awaitNested"]),
                                        Frame(NestedStackName(r.PhysicalResourceId),
                                              NestedDefault))
                    /\ UNCHANGED functionCount
            ELSE IF r.ResourceType = FunctionType
               THEN /\ functionCount' = functionCount + 1
                    /\ frames' = SetTop([Top EXCEPT !.pc = "awaitConfig"])
            ELSE /\ frames' = SetTop([Top EXCEPT !.idx = @ + 1])
                 /\ UNCHANGED functionCount
    /\ UNCHANGED <<world, merged, stacks, lambdaEnv, vpc, printed>>
    /\ UNCHANGED <<chunkVars, replVars>>

\* get-vars.js:67-72: the function's configuration arrives.
ConfigReturns ==
    /\ vpc = "run"
    /\ Top.pc = "awaitConfig"
    /\ \E resp \in ConfigAnswers :
         LET r == Top.resources[Top.idx] IN
         IF resp.error # NoError
            THEN /\ vpc' = "error"
                 /\ UNCHANGED <<frames, merged, lambdaEnv>>
            ELSE /\ lambdaEnv' = [lambdaEnv EXCEPT ![r.PhysicalResourceId[1]] =
                        [known |-> TRUE, hasEnvironment |-> resp.hasEnvironment,
                         hasVariables |-> resp.hasVariables,
                         Variables |-> resp.Variables]]
                 /\ IF HasVariables(resp)
                       THEN /\ frames' = SetTop([Top EXCEPT
                                   !.page = Put(@, r.LogicalResourceId, resp.Variables),
                                   !.idx = @ + 1, !.pc = "loop"])
                            /\ merged' = Merge(merged, resp.Variables)
                       ELSE /\ frames' = SetTop([Top EXCEPT
                                   !.idx = @ + 1, !.pc = "loop"])
                            /\ UNCHANGED merged
                 /\ UNCHANGED vpc
    /\ UNCHANGED <<world, functionCount, stacks, trace, printed>>
    /\ UNCHANGED <<chunkVars, replVars>>

\* get-vars.js:76-82: the loop is over; the two lines are logged, the page
\* is kept when it is not empty, and the caller's await resumes.
CompleteStack ==
    /\ vpc = "run"
    /\ Top.pc = "loop"
    /\ Top.idx > Len(Top.resources)
    /\ trace' = Append(trace, Completed(Top.stackName, functionCount))
    /\ stacks' = IF DOMAIN Top.page # {}
                    THEN Put(stacks, Top.stackName, Top.page)
                    ELSE stacks
    /\ IF Len(frames) = 1
          THEN /\ frames' = <<>>
               /\ vpc' = "resolved"
          ELSE LET rest == SubSeq(frames, 1, Len(frames) - 1)
                   parent == rest[Len(rest)]
               IN  /\ frames' = [rest EXCEPT ![Len(rest)] =
                                    [parent EXCEPT !.idx = @ + 1, !.pc = "loop"]]
                   /\ UNCHANGED vpc
    /\ UNCHANGED <<world, functionCount, merged, lambdaEnv, printed>>
    /\ UNCHANGED <<chunkVars, replVars>>

\* get-vars.js:85-86: console.log(JSON.stringify(merged, null, 2))
ThenHandler ==
    /\ vpc = "resolved"
    /\ printed' = merged
    /\ vpc' = "done"
    /\ UNCHANGED <<world, functionCount, merged, stacks, frames, lambdaEnv, trace>>
    /\ UNCHANGED <<chunkVars, replVars>>

-----------------------------------------------------------------------------
\* The specifications.

NextChunkArray ==
    \/ ChunkStep
    \/ ChunkReturn

InitChunkArray == InitChunk /\ InitReplIdle /\ InitCollIdle

SpecChunk == InitChunkArray /\ [][NextChunkArray]_vars

Next ==
    \/ Start
    \/ DescribeRemoteReturns
    \/ DescribeLocalReturns
    \/ CreateReturns
    \/ ScanReturns
    \/ BatchReturns

Init == InitRepl /\ InitChunkIdle /\ InitCollIdle

Spec == Init /\ [][Next]_vars

NextVars ==
    \/ VarsStart
    \/ ListReturns
    \/ VisitResource
    \/ ConfigReturns
    \/ CompleteStack
    \/ ThenHandler

InitVars == InitColl /\ InitChunkIdle /\ InitReplIdle

SpecVars == InitVars /\ [][NextVars]_vars

-----------------------------------------------------------------------------
\* Properties of chunkArray (under SpecChunk).

\* C1: for a sequence of length N and a stride S >= 1, chunkArray yields
\* ceil(N/S) chunks, each of size S except possibly the last (N mod S, or S
\* when S divides N), and the chunks concatenated in yield order are the
\* sequence again; zero chunks when N = 0.
C1_ChunkArrayPartitions ==
    cPc = "done" =>
        LET N == Len(cArr)
            S == cStride
            n == Len(cChunks)
        IN  /\ n = (N + S - 1) \div S
            /\ N = 0 => cChunks = <<>>
            /\ \A k \in 1..(n - 1) : Len(cChunks[k]) = S
            /\ n > 0 => Len(cChunks[n]) = (IF N % S = 0 THEN S ELSE N % S)
            /\ Flatten(cChunks) = cArr

C1_Witness ==
    /\ cPc = "done"
    /\ cArr = <<"a", "b", "b", "a", "b">>
    /\ cStride = 2
    /\ cChunks = << <<"a", "b">>, <<"b", "a">>, <<"b">> >>

-----------------------------------------------------------------------------
\* Properties of the replicator (under Spec).

BatchCalls == {k \in DOMAIN calls : calls[k].op = "BatchWriteItem"}

CreateCalls == {k \in DOMAIN calls : calls[k].op = "CreateTable"}

DescribeCalls(endpoint) ==
    {k \in DOMAIN calls :
        calls[k].op = "DescribeTable" /\ calls[k].endpoint = endpoint}

\* The batches sent so far, concatenated in send order.
SentItems == Flatten([k \in 1..Len(calls) |-> calls[k].batch])

\* C2: with limit 0, a run that scanned N >= 1 items and has ended, no
\* batch-write of items having been refused, has written all N items to the
\* local table.
C2_LimitZeroImportsAll ==
    (/\ limit = 0
     /\ pc = "done"
     /\ Len(tableData.Items) >= 1
     /\ \A k \in BatchCalls :
           calls[k].status # NoError => calls[k].batch = <<>>)
        => local.written = tableData.Items

\* C3: for a limit L >= 1, when the import of N >= 1 items returns without
\* error the number W of items written is N if N < L, and otherwise
\* L <= W <= L + 24.
C3_WrittenWithinLimit ==
    (limit >= 1 /\ outcome = "success") =>
        LET W == Len(local.written)
            N == Len(tableData.Items)
            L == limit
        IN  /\ N >= 1
            /\ W = limitCounter
            /\ IF N < L THEN W = N ELSE L <= W /\ W <= L + 24

C3_Witness ==
    /\ outcome = "success"
    /\ limit = 26
    /\ Len(tableData.Items) = 60
    /\ Len(local.written) = 50

\* C4: when the remote table exists, create-table is never sent if the local
\* describe reports the table present (nor before it has answered); if it
\* reports not-found, create-table is sent exactly once, to the local
\* endpoint, with the remote description's Table, and it has completed
\* before the scan and every batch-write are sent.
C4_CreateOnlyIfAbsent ==
    remote.exists =>
        LET absent == \E k \in DescribeCalls("local") : calls[k].status = NotFound
        IN  /\ ~absent => CreateCalls = {}
            /\ absent =>
                 /\ Cardinality(CreateCalls) = 1
                 /\ \A c \in CreateCalls :
                      /\ calls[c].endpoint = "local"
                      /\ calls[c].schema = remoteTableDescription.Table
                      /\ calls[c].schema = remote.schema
                      /\ \A j \in DOMAIN calls :
                           calls[j].op \in {"Scan", "BatchWriteItem"} =>
                               c < j /\ calls[c].status = NoError
                 /\ (local.exists => local.schema = remote.schema)

C4_Witness ==
    /\ remote.exists
    /\ \E k \in DescribeCalls("local") : calls[k].status = NotFound
    /\ \E c \in CreateCalls : calls[c].status = NoError /\ calls[c].schema = "schemaB"
    /\ BatchCalls # {}
    /\ outcome = "success"

\* C5: when the scan answers with no items (Items missing or empty), no
\* batch-write is ever sent and the run ends without an error, whatever the
\* limit.
C5_EmptyScanWritesNothing ==
    (tableData.scanned /\ (~tableData.hasItems \/ Len(tableData.Items) = 0)) =>
        /\ pc = "done"
        /\ outcome \in {"empty", "success"}
        /\ err = NoError
        /\ BatchCalls = {}
        /\ local.written = <<>>

C5_Witness ==
    /\ tableData.scanned
    /\ ~tableData.hasItems
    /\ limit = 0
    /\ pc = "done"
    /\ outcome = "empty"

\* C6: when the remote describe answers not-found, the run ends in the error
\* outcome with the 'does not exist in the remote DynamoDB' error, no other
\* command is ever sent and the local service is left as it was.
C6_RemoteAbsentFailsRun ==
    (\E k \in DescribeCalls("remote") : calls[k].status = NotFound) =>
        /\ pc = "done"
        /\ outcome = "error"
        /\ err = RemoteMissingError
        /\ Len(calls) = 1
        /\ local.exists = local.preexisting
        /\ local.written = <<>>

C6_Witness ==
    /\ \E k \in DescribeCalls("remote") : calls[k].status = NotFound
    /\ local.exists
    /\ outcome = "error"

\* C7: a not-found answer to a describe becomes the absent value and is not
\* the run's error; any other failure of any command ends the run in the
\* error outcome with that very error, and no command (the failed one
\* included) is sent after it.
C7_OnlyNotFoundIsAbsorbed ==
    \A k \in DOMAIN calls :
        LET c == calls[k]
            absorbed == c.op = "DescribeTable" /\ c.status = NotFound
        IN  /\ absorbed =>
                 /\ c.endpoint = "remote" => remoteTableDescription.isNull
                 /\ c.endpoint = "local" =>
                        localTableDescription.isNull /\ k < Len(calls)
                 /\ err = NotFound =>
                        \E j \in DOMAIN calls :
                            /\ j > k
                            /\ calls[j].op # "DescribeTable"
                            /\ calls[j].status = NotFound
            /\ (c.status \notin {"pending", NoError} /\ ~absorbed) =>
                 /\ k = Len(calls)
                 /\ pc = "done"
                 /\ outcome = "error"
                 /\ err = c.status

C7_Witness ==
    /\ \E k \in DescribeCalls("local") : calls[k].status = NotFound
    /\ \E k \in BatchCalls : calls[k].status = Throttled /\ k = Len(calls)
    /\ Cardinality(BatchCalls) = 2
    /\ outcome = "error"

\* C10: for every limit L >= 0 and every non-empty scan, each batch-write
\* carries between 1 and 25 items (the stride is in 1..25) and the batches
\* in send order make up a prefix of the scanned items, none sent twice.
C10_BatchesAreChunksOfThePrefix ==
    /\ \A k \in BatchCalls :
         /\ Len(calls[k].batch) >= 1
         /\ Len(calls[k].batch) <= 25
         /\ stride \in 1..25
    /\ BatchCalls # {} =>
         LET sent == SentItems IN
         /\ Len(sent) <= Len(tableData.Items)
         /\ sent = SubSeq(tableData.Items, 1, Len(sent))
         /\ Cardinality({sent[a] : a \in DOMAIN sent}) = Len(sent)

\* The same statement for the limits 1 and above.
BatchesArePrefixForPositiveLimit == limit >= 1 => C10_BatchesAreChunksOfThePrefix

-----------------------------------------------------------------------------
\* Properties of the env collector (under SpecVars).

\* The function names of stack s in traversal order: listing order, a nested
\* stack's functions at the place of the nested-stack resource.
RECURSIVE FunctionsInOrder(_, _)
FunctionsInOrder(w, s) ==
    Flatten([k \in 1..Len(Tree(w, s)) |->
        LET e == Tree(w, s)[k]
        IN  CASE e.kind = "fn" -> <<e.name>>
              [] e.kind = "stack" -> FunctionsInOrder(w, e.name)
              [] OTHER -> <<>>])

\* The stacks nested in s, at any depth.
RECURSIVE Descendants(_, _)
Descendants(w, s) ==
    LET kids == {Tree(w, s)[k].name :
                    k \in {j \in 1..Len(Tree(w, s)) : Tree(w, s)[j].kind = "stack"}}
    IN  kids \cup UNION {Descendants(w, c) : c \in kids}

Declares(f, X) ==
    /\ lambdaEnv[f].known
    /\ lambdaEnv[f].hasEnvironment
    /\ lambdaEnv[f].hasVariables
    /\ X \in DOMAIN lambdaEnv[f].Variables

SetMax(S) == CHOOSE x \in S : \A y \in S : y <= x

\* C8: once listStackResources has completed on the root stack, merged maps
\* each name to the value declared by the last function, in traversal order,
\* that declares it (and holds no other name).
C8_LastDeclarationWins ==
    vpc \in {"resolved", "done"} =>
        LET order == FunctionsInOrder(world, RootStack) IN
        \A X \in Names :
            LET definers == {k \in 1..Len(order) : Declares(order[k], X)}
            IN  IF definers = {}
                   THEN X \notin DOMAIN merged
                   ELSE /\ X \in DOMAIN merged
                        /\ merged[X] = lambdaEnv[order[SetMax(definers)]].Variables[X]

C8_Witness ==
    /\ vpc = "done"
    /\ world = "chain"
    /\ Declares("fn1", "X") /\ lambdaEnv["fn1"].Variables["X"] = 1
    /\ Declares("fn3", "X") /\ lambdaEnv["fn3"].Variables["X"] = 2
    /\ Declares("fn2", "X") /\ lambdaEnv["fn2"].Variables["X"] = 1
    /\ Declares("fn3", "Y") /\ ~Declares("fn2", "Y")
    /\ merged["X"] = 1
    /\ merged["Y"] = lambdaEnv["fn3"].Variables["Y"]
    /\ printed = merged

FunctionVisitsBefore(j) ==
    {v \in 1..(j - 1) : trace[v].kind = "visit" /\ trace[v].type = FunctionType}

\* C9: when a stack P logs its 'completed stack' line, every stack C nested
\* in P at any depth has logged its own line before, after all of C's
\* resources were visited, and the functionCount logged with P's line counts
\* every function visited so far, those of C included.
C9_ChildCompletesBeforeParent ==
    \A P \in StacksOf(world) : \A C \in Descendants(world, P) :
        \A j \in DOMAIN trace :
            (trace[j].kind = "completed" /\ trace[j].stack = P) =>
                /\ \E i \in 1..(j - 1) :
                     /\ trace[i].kind = "completed" /\ trace[i].stack = C
                     /\ \A k \in 1..Len(Tree(world, C)) :
                          \E v \in 1..(i - 1) :
                             /\ trace[v].kind = "visit"
                             /\ trace[v].stack = C
                             /\ trace[v].id = Tree(world, C)[k].name
                /\ trace[j].count = Cardinality(FunctionVisitsBefore(j))
                /\ \A n \in 1..Len(FunctionsInOrder(world, C)) :
                     \E v \in FunctionVisitsBefore(j) :
                        trace[v].id = FunctionsInOrder(world, C)[n]

C9_Witness ==
    /\ world = "chain"
    /\ vpc = "done"
    /\ \E i, j \in DOMAIN trace :
         /\ i < j
         /\ trace[i] = Completed("grand", 2)
         /\ trace[j] = Completed("root", 3)

====
